---- MODULE Spec2Model ----
(***************************************************************************)
(* Model of nxdir-s/httpc: the verb pipeline of Client (client.go), the    *)
(* rate-limiter gate it runs before sending, and RetryTransport.RoundTrip  *)
(* (retry.go) wrapped around the base transport.                           *)
(*                                                                         *)
(* Each caller (goroutine) runs one verb call at a time.  A call is cut at *)
(* its suspension points: the limiter check, the two time.Sleep calls and  *)
(* the network wait of one base-transport round trip.  Time is kept        *)
(* relative: every running timer counts down on Tick (one tick = 1 s).     *)
(* After a Stream call the copy task and the caller's reads on the pipe    *)
(* are steps of their own; the client's options (options.go) are applied   *)
(* when the client is built.                                               *)
(***************************************************************************)
EXTENDS Integers, Sequences, FiniteSets, TLC

\* ------------------------------------------------------------------ bounds

\* Emission interval of the limiter, in ticks (60 s / rateLimit, options.go:67).
EmissionInterval == 2

\* Saturation point of the gateRounds history counter.
MaxGateRounds == 2

\* The largest retry limit a transport is built with.
MaxRetryLimit == 37

\* ---------------------------------------------------------- program values

DefaultRetryMax == 3

Procs == {1, 2}

\* Values of Config.RetryMax the client is built with.
RetryMaxValues == {-1, 0, 1, 2}

\* Request bodies a caller passes: nil (has = FALSE) or a reader over bytes.
NilBody == [has |-> FALSE, bytes |-> <<>>]

Bodies == {NilBody} \cup {[has |-> TRUE, bytes |-> b] : b \in {<<>>, <<7>>, <<7, 8>>}}

\* Values of req.Body: nil, the caller's reader, or a buffer with unread bytes.
NilReader == [kind |-> "nil", left |-> <<>>]

SrcReader == [kind |-> "src", left |-> <<>>]

NewBuffer(b) == [kind |-> "buf", left |-> b]

\* Status codes the server answers with.
Statuses == {200, 226, 404, 500}

\* What one base-transport round trip yields: a transport error with no
\* response (http.RoundTripper's contract), or a response with a status.
ErrOutcome == [err |-> TRUE, status |-> 0]

Outcomes == {ErrOutcome} \cup {[err |-> FALSE, status |-> s] : s \in Statuses}

NoResp == [status |-> 0, n |-> 0]

\* The verb methods of Client.
Verbs == {"Get", "Post", "Put", "Delete", "Patch", "Stream"}

\* A URL, or a resource string as the caller writes it, by its parts; a path
\* is the sequence of its pieces ("/a" is <<"/", "a">>, "" is <<>>).
Url(scheme, host, path) == [scheme |-> scheme, host |-> host, path |-> path]

NoUrl == Url("", "", <<>>)

\* Config.BaseUrl as NewClient parsed it.
BaseUrl == Url("https", "api", <<>>)

\* Resource arguments: "/a", "/b", "a", "", "/%zz", "https://other/a".
PathA == Url("", "", <<"/", "a">>)

PathB == Url("", "", <<"/", "b">>)

Unrooted == Url("", "", <<"a">>)

EmptyResource == NoUrl

BadEscape == Url("", "", <<"/", "%zz">>)

AbsoluteUrl == Url("https", "other", <<"/", "a">>)

Resources == {PathA, PathB, Unrooted, EmptyResource, BadEscape, AbsoluteUrl}

\* The quantity every RateLimitCtx call of the verb methods asks for.
Quantity == 1

\* The two revisions of client.go: 1 has the rate limiter and reports a
\* status error with the dump resp.Write makes, 2 has Config.ReadByteLimit.
Revisions == {1, 2}

Kib == 1024

Mib == 1024 * Kib

DefaultReadByteLimit == 15 * Mib

\* Values of Config.ReadByteLimit.
ReadByteLimits == {-1, 0, 1, 2}

\* Header keys as a caller writes them in a map, and header values.
HeaderKeys == {"x-a", "X-A", "X-B"}

HeaderValues == {"v1", "v2"}

NoHeaders == [k \in {} |-> "v1"]

\* A client with one default header.
OneHeader == [k \in {"X-A"} |-> "v1"]

\* map[string]string values of up to two keys.
HeaderMaps ==
    UNION {[S -> HeaderValues] : S \in {T \in SUBSET HeaderKeys : Cardinality(T) <= 2}}

\* The decoded argument: nil, or a pointer to a value that is 0 at the call.
NilTarget == [has |-> FALSE, val |-> 0]

ZeroTarget == [has |-> TRUE, val |-> 0]

\* A response body: len bytes of which head are the first; bytes 1 and 2
\* are each a complete JSON value, 9 is no JSON; with fails the read after
\* the last byte reports an error where it should report the end.
NoBody == [len |-> 0, head |-> <<>>, fails |-> FALSE]

RespBody(head, len, fails) == [len |-> len, head |-> head, fails |-> fails]

RespBodies ==
    {NoBody, RespBody(<<1>>, 1, FALSE), RespBody(<<2, 1>>, 2, FALSE), RespBody(<<9>>, 1, FALSE),
     RespBody(<<1, 2, 1>>, 3, FALSE), RespBody(<<2>>, DefaultReadByteLimit + 1, FALSE),
     RespBody(<<1, 9>>, 2, TRUE)}

\* What is left of a response body beyond its first bytes, as one chunk.
Rest == 0

\* A response body as the chunks a copy moves: its first bytes one by one,
\* then the rest.
Chunks(b) == IF b.len > Len(b.head) THEN Append(b.head, Rest) ELSE b.head

\* The pipe of a Stream call: its write side (none, open, closed), the
\* chunks of the response body not yet read by the copy, the chunk the
\* copy holds in a pw.Write that has not returned (at most one), whether
\* the copy ended on an error, the chunks the returned reader has yielded,
\* whether it has yielded the end of the stream, and the error it gave
\* there.
NoPipe ==
    [w |-> "none", left |-> <<>>, held |-> <<>>, failed |-> FALSE, got |-> <<>>,
     eof |-> FALSE, seen |-> "none"]

\* `pr, pw := io.Pipe()` over a response body.
NewPipe(b) == [NoPipe EXCEPT !.w = "open", !.left = Chunks(b)]

\* The payload of a status error: the status code and the first n bytes of
\* the body, of which head are the first.
NoPayload == [code |-> 0, n |-> 0, head |-> <<>>]

VARIABLES
    cfg,        \* Config: RetryEnabled, RetryMax; limiter: WithRateLimiter applied
    callers,    \* the goroutines that issue calls on the client
    env,        \* what surrounds the client: the bodies callers pass, what the server answers
    tat,        \* limiter: per key, time until the theoretical arrival time (0: a unit is free)
    sincePass,  \* time since a call last left the gate, capped at EmissionInterval
    lastGap,    \* sincePass as it was when the latest call left the gate (-1: none yet)
    pc,         \* per caller: idle, gate, send, backoff, classify, done, panic
    ctxDone,    \* per caller: the call's context is cancelled
    sleepLeft,  \* per caller: time left of the running time.Sleep
    callBody,   \* per caller: the body the caller passed
    srcLeft,    \* per caller: unread bytes of the caller's body reader
    reqBody,    \* per caller: req.Body
    bodyBytes,  \* per caller: RoundTrip's function-scope bodyBytes
    sentFirst,  \* per caller: bytes the base transport got on attempt 1
    sentLast,   \* per caller: bytes the base transport got on the latest attempt
    attempts,   \* per caller: base-transport round trips of this call
    retries,    \* per caller: RoundTrip's retries counter
    resp,       \* per caller: RoundTrip's resp (NoResp: nil)
    err,        \* per caller: RoundTrip's err is non-nil
    onlyBad,    \* per caller: every attempt so far answered with a status outside 200..299
    admits,     \* per caller: limiter units this call consumed
    gateRounds, \* per caller: limited checks of this call (saturating)
    ret,        \* per caller: what the verb method returned
    verb,       \* per caller: the verb method called
    resource,   \* per caller: the resource argument
    hdrs,       \* per caller: the headers argument
    target,     \* per caller: the decoded argument (has = FALSE: nil) and what it holds
    srcFault,   \* per caller: the body reader reports an error after its bytes
    reqUrl,     \* per caller: fullUrl
    reqHeader,  \* per caller: req.Header of the request built
    srcReads,   \* per caller: times the caller's body reader was read
    copied,     \* per caller: the bodyBytes of RoundTrip's if block
    cause,      \* per caller: the kind of RoundTrip's err
    finalBody,  \* per caller: the body of the response Http.Do returned
    errBody,    \* per caller: the payload of the status error returned
    respBody,   \* per caller: the Body of RoundTrip's resp, then of the response Http.Do returned, is none, open or closed
    badReq,     \* per caller: http.NewRequestWithContext fails for the arguments passed
    unclosed,   \* per caller: response bodies RoundTrip dropped without closing them
    delay,      \* per caller: the Duration RoundTrip last passed to time.Sleep
    pipe        \* per caller: the io.Pipe of Stream and the response body behind it

limiterVars == <<tat, sincePass, lastGap>>
bodyVars == <<callBody, srcLeft, reqBody, bodyBytes, sentFirst, sentLast>>
rtVars == <<attempts, retries, resp, err, onlyBad>>
gateVars == <<admits, gateRounds>>
inVars == <<verb, resource, hdrs, target, srcFault>>
reqVars == <<reqUrl, reqHeader>>
readVars == <<srcReads, copied, cause>>
outVars == <<finalBody, errBody, respBody>>
lateVars == <<badReq, unclosed, delay, pipe>>
vars == <<cfg, callers, env, limiterVars, pc, ctxDone, sleepLeft, bodyVars, rtVars, gateVars, ret,
          inVars, reqVars, readVars, outVars, lateVars>>

\* ----------------------------------------------------------------- helpers

Min(a, b) == IF a < b THEN a ELSE b

Max(a, b) == IF a > b THEN a ELSE b

RECURSIVE Pow2(_)
Pow2(n) == IF n <= 0 THEN 1 ELSE 2 * Pow2(n - 1)

\* Go's integer division truncates toward zero.
GoDiv(a, b) == IF a >= 0 THEN a \div b ELSE -((-a) \div b)

NoRet == [resp |-> NoResp, err |-> "unset"]

\* ------------------------------------------------------------------ retry.go

\* NewRetryTransport: the retryMax field of the transport.
NewRetryTransport(maxRetry) == IF maxRetry # 0 THEN maxRetry ELSE DefaultRetryMax

retryMax == NewRetryTransport(cfg.RetryMax)

\* shouldRetry(resp, err)
shouldRetry(r, e) == IF e THEN TRUE ELSE GoDiv(r.status, 10) # 20

\* A time.Duration, an int64 count of nanoseconds, as m * 2^e with m odd or 0.
Duration(m, e) == [m |-> m, e |-> e]

NoDelay == Duration(0, 0)

\* time.Second: 10^9 ns = 1953125 * 2^9.
Second == Duration(1953125, 9)

\* The int64 that holds the low 64 bits of m * 2^e, for 0 < m < 2^21: the
\* bits of m from bit 64 - e on are lost and bit 63 is the sign.
WrapInt64(m, e) ==
    IF e >= 64 THEN NoDelay
    ELSE IF 64 - e > 21 THEN Duration(m, e)
    ELSE LET r == m % Pow2(64 - e)
         IN IF r >= Pow2(63 - e) THEN Duration(r - Pow2(64 - e), e) ELSE Duration(r, e)

\* backoff(retries): math.Pow(2, retries) is the float 2^retries, which the
\* conversion to Duration keeps (retries below 63), and the product with
\* time.Second is an int64 product.
backoff(n) == WrapInt64(Second.m, Second.e + n)

\* How long time.Sleep(d) sleeps, in seconds, for a d of no or of whole
\* seconds: a d of 0 or less returns at once.
Sleep(d) == IF d.m <= 0 THEN 0 ELSE (d.m * Pow2(d.e - Second.e)) \div Second.m

\* An off-by-one loop bound.
LoopCondOffByOne(r, e, n) == shouldRetry(r, e) /\ n <= retryMax

\* The loop condition of RoundTrip.
LoopCond(r, e, n) == shouldRetry(r, e) /\ n < retryMax

\* A retry counter kept in the RetryTransport struct: one for all
\* invocations.
RetriesOnTransport(p) == 1

\* `retries` is a local of RoundTrip (the struct holds the base transport
\* and the limit only): each invocation, one per caller, counts in its own.
RetriesOf(p) == p

\* A loop that drops the previous response as it is.
DiscardUnclosed(body) == body

\* The loop's `io.Copy(io.Discard, resp.Body); resp.Body.Close()` on the
\* previous response, whose Body the base transport never leaves nil: the
\* body is read to its end (or to a read error) and closed.
DiscardBody(body) == "closed"

\* The retry transport installed whatever the configuration says.
AlwaysRetryTransport == TRUE

\* getRoundTripper: whether the transport built from Config is the
\* RetryTransport.
getRoundTripper == cfg.RetryEnabled

\* An http.Client by what its sends go through: the RetryTransport, an
\* oauth2 transport, a client the caller supplied.
HttpClient(retry, oauth, custom) == [retry |-> retry, oauth |-> oauth, custom |-> custom]

\* A replacement that keeps the transport chain of the client it replaces.
CustomKeepsTransport(http) == [http EXCEPT !.custom = TRUE]

\* WithCustomClient: `c.Http = client`, a client of the caller's own with
\* a plain transport (the tests pass httptest's).
WithCustomClient(http) == HttpClient(FALSE, FALSE, TRUE)

\* WithCredentials: `c.Http = credentials.Client(ctx)` with the current
\* c.Http as the context's oauth2.HTTPClient, whose transport the oauth2
\* transport sends through.
WithCredentials(http) == [http EXCEPT !.oauth = TRUE]

ClientOptions == {"WithCustomClient", "WithCredentials"}

\* The option lists NewClient is called with.
OptionLists == {<<>>} \cup [1..1 -> ClientOptions] \cup [1..2 -> ClientOptions]

\* NewClient's loop over opts: each is applied to the client the ones
\* before it left.
RECURSIVE ApplyOpts(_, _)
ApplyOpts(http, opts) ==
    IF opts = <<>> THEN http
    ELSE ApplyOpts(IF Head(opts) = "WithCustomClient" THEN WithCustomClient(http)
                   ELSE WithCredentials(http),
                   Tail(opts))

\* c.Http of the client NewClient returns: the client built around
\* getRoundTripper's transport, then the options in order.
Http == ApplyOpts(HttpClient(getRoundTripper, FALSE, FALSE), cfg.Opts)

\* The bytes a reader held by req.Body still yields to whoever reads it.
Readable(p, b) ==
    IF b.kind = "src" THEN srcLeft[p] ELSE b.left

\* A read of the body that reports no error.
ReadAllNeverFails(p) == FALSE

\* io.ReadAll(req.Body) returns an error: the caller's reader reports one.
ReadAllFails(p) == srcFault[p]

\* What the base transport can answer: with a cancelled context net/http's
\* transport returns the context's error and no response.
BaseOutcomes(p) == IF ctxDone[p] THEN {ErrOutcome} ELSE env.outcomes

\* ----------------------------------------------------------------- client.go

\* A path that starts with "/".
Rooted(path) == path # <<>> /\ path[1] = "/"

\* A path with a "%" that no two hex digits follow.
BadlyEscaped(path) == \E i \in 1..Len(path) : path[i] = "%zz"

\* url.ParseRequestURI(resource): the empty string, a string with neither a
\* scheme nor a leading "/", and a bad escape are errors; an absolute URI and
\* an absolute path both parse.
ParseRequestURI(r) ==
    IF r.scheme = "" /\ r.host = "" /\ r.path = <<>> THEN [ok |-> FALSE, url |-> NoUrl]
    ELSE IF r.scheme = "" /\ ~Rooted(r.path) THEN [ok |-> FALSE, url |-> NoUrl]
    ELSE IF BadlyEscaped(r.path) THEN [ok |-> FALSE, url |-> NoUrl]
    ELSE [ok |-> TRUE, url |-> r]

\* base.ResolveReference(ref): a reference with a scheme is returned as it
\* is, one with a host keeps the host, any other takes scheme and host of
\* the base and, when its path is rooted, its own path.
ResolveReference(base, ref) ==
    IF ref.scheme # "" THEN ref
    ELSE IF ref.host # "" THEN Url(base.scheme, ref.host, ref.path)
    ELSE IF ref.path = <<>> THEN base
    ELSE IF Rooted(ref.path) THEN Url(base.scheme, base.host, ref.path)
    ELSE Url(base.scheme, base.host, <<"/">> \o ref.path)

\* textproto.CanonicalMIMEHeaderKey: the first letter and every letter after
\* a hyphen upper case, the others lower case.
CanonicalMIMEHeaderKey(k) == IF k = "x-a" THEN "X-A" ELSE k

\* The headers that `for key, val := range m { h.Set(key, val) }` can leave:
\* Set stores under the canonical key, and of the keys of m that share one
\* the last in Go's map order, which can be any of them, stays.
SetAll(h, m) ==
    LET names == {CanonicalMIMEHeaderKey(k) : k \in DOMAIN m}
    IN {g \in [DOMAIN h \cup names -> HeaderValues] :
           \A n \in DOMAIN g :
               IF n \in names
               THEN \E k \in DOMAIN m : CanonicalMIMEHeaderKey(k) = n /\ g[n] = m[k]
               ELSE g[n] = h[n]}

\* Per-call headers first, the defaults after them.
DefaultsLast(defaults, perCall) == UNION {SetAll(h, defaults) : h \in SetAll(NoHeaders, perCall)}

\* The two loops of the verb methods: the defaults, then the per-call headers.
MergeHeaders(defaults, perCall) == UNION {SetAll(h, perCall) : h \in SetAll(NoHeaders, defaults)}

\* req.Header of the request a verb method builds.
RequestHeaders(p) == MergeHeaders(cfg.Headers, hdrs[p])

\* The limit of the error-body copy (revision 2).
ReadLimit == IF cfg.ReadByteLimit # 0 THEN cfg.ReadByteLimit ELSE DefaultReadByteLimit

\* The bytes io.Copy gets from io.LimitReader(resp.Body, limit): a limit of
\* 0 or less yields none.
LimitRead(b, limit) == IF limit <= 0 THEN 0 ELSE Min(b.len, limit)

\* io.Copy reports an error when the read after the body's last byte fails
\* and the limit does not stop the copy before it.
LimitReadFails(b, limit) == b.fails /\ limit > b.len

\* Whether the error-body copy of the verb method fails: resp.Write's error
\* is dropped in revision 1.
CopyFails(b) == cfg.Rev = 2 /\ LimitReadFails(b, ReadLimit)

Prefix(bytes, n) == SubSeq(bytes, 1, Min(n, Len(bytes)))

\* A status error with no status code in it.
NoStatusCode(status) == 0

\* The status code a status error shows: the StatusCode field of
\* ErrStatusCode, the status line of the dump in BadStatusCode.
StatusErrorCode(status) == status

\* The payload of the status error: resp.Write dumps the whole response in
\* revision 1, revision 2 copies the body up to the limit.
StatusPayload(status, b) ==
    LET n == IF cfg.Rev = 1 THEN b.len ELSE LimitRead(b, ReadLimit)
    IN [code |-> StatusErrorCode(status), n |-> n, head |-> Prefix(b.head, n)]

\* json.NewDecoder(resp.Body).Decode(decoded): the first JSON value of the
\* body; an empty body and a body that starts with no JSON are errors.
JsonValues == {1, 2}

Decode(b) ==
    IF b.head # <<>> /\ b.head[1] \in JsonValues
    THEN [ok |-> TRUE, val |-> b.head[1]]
    ELSE [ok |-> FALSE, val |-> 0]

\* The error a verb method returns when http.NewRequestWithContext fails:
\* revision 2 wraps it in ErrNewRequest in Get, Post and Put; everywhere
\* else it is `return nil, err`, the error as net/http made it.
NewRequestError(v) ==
    IF cfg.Rev = 2 /\ v \in {"Get", "Post", "Put"} THEN "NewRequestError" ELSE "unwrapped"

\* A pipeline that closes no response body.
BodyLeftOpen(v, path) == "open"

\* resp.Body when the verb method returns by path "status" (status error or
\* failed copy), "decode" (decode error) or "ok": every error return closes
\* it (defer or explicit Close; resp.Write in Stream of revision 1); on
\* success revision 1 closes it by its defer, Stream and revision 2 do not.
BodyAtReturn(v, path) ==
    IF path = "ok" /\ (v = "Stream" \/ cfg.Rev = 2) THEN "open" ELSE "closed"

\* fullUrl of the verb methods for a resource that parsed.
FullUrl(r) == ResolveReference(BaseUrl, ParseRequestURI(r).url)

\* ------------------------------------------------------------------- limiter

\* The keys a limiter store can hold a bucket for.
LimiterKeys == {BaseUrl} \cup {FullUrl(r) : r \in {x \in Resources : ParseRequestURI(x).ok}}

\* A gate that keeps one bucket for each target URL.
FullUrlKey(p) == reqUrl[p]

\* The key of the verb methods' RateLimitCtx call: c.BaseUrl.String().
RateLimitKey(p) == BaseUrl

\* GCRARateLimiterCtx.RateLimitCtx(ctx, key, 1) with MaxBurst 0:
\* limited while the key's theoretical arrival time lies ahead; RetryAfter
\* is the time until it.
Limited(p) == tat[RateLimitKey(p)] > 0

RetryAfter(p) == tat[RateLimitKey(p)]

\* -------------------------------------------------------------------- Init

\* The clients NewClient can build: revision 2 has no rate limiter and
\* revision 1 no read limit.
Configs(retry, limits, limiter, revs, readLimits, headers) ==
    {c \in [RetryEnabled : retry, RetryMax : limits, RateLimiter : limiter, Rev : revs,
            ReadByteLimit : readLimits, Headers : headers, Opts : {<<>>}] :
        /\ c.Rev = 2 => ~c.RateLimiter
        /\ c.Rev = 1 => c.ReadByteLimit = 0}

\* The clients NewClient builds from a configuration and an option list.
WithOpts(cfgs, lists) == {[c EXCEPT !.Opts = o] : c \in cfgs, o \in lists}

\* The simplest call: Post of "/a" with no headers and no decode target, a
\* reader that does not fail, an empty response body.
PlainCall ==
    [verbs |-> {"Post"}, resources |-> {PathA}, headers |-> {NoHeaders}, targets |-> {NilTarget},
     faults |-> {FALSE}, respBodies |-> {NoBody}, nilCtx |-> {FALSE}]

Env(bodies, outcomes, call) ==
    [bodies |-> bodies, outcomes |-> outcomes, verbs |-> call.verbs, resources |-> call.resources,
     headers |-> call.headers, targets |-> call.targets, faults |-> call.faults,
     respBodies |-> call.respBodies, nilCtx |-> call.nilCtx]

InitWith(cs, cfgs, e) ==
    /\ cfg \in cfgs
    /\ callers = cs
    /\ env = e
    /\ tat = [k \in LimiterKeys |-> 0]
    /\ sincePass = EmissionInterval
    /\ lastGap = -1
    /\ pc = [p \in Procs |-> "idle"]
    /\ ctxDone = [p \in Procs |-> FALSE]
    /\ sleepLeft = [p \in Procs |-> 0]
    /\ callBody = [p \in Procs |-> NilBody]
    /\ srcLeft = [p \in Procs |-> <<>>]
    /\ reqBody = [p \in Procs |-> NilReader]
    /\ bodyBytes = [p \in Procs |-> <<>>]
    /\ sentFirst = [p \in Procs |-> <<>>]
    /\ sentLast = [p \in Procs |-> <<>>]
    /\ attempts = [p \in Procs |-> 0]
    /\ retries = [p \in Procs |-> 0]
    /\ resp = [p \in Procs |-> NoResp]
    /\ err = [p \in Procs |-> FALSE]
    /\ onlyBad = [p \in Procs |-> TRUE]
    /\ admits = [p \in Procs |-> 0]
    /\ gateRounds = [p \in Procs |-> 0]
    /\ ret = [p \in Procs |-> NoRet]
    /\ verb = [p \in Procs |-> ""]
    /\ resource = [p \in Procs |-> NoUrl]
    /\ hdrs = [p \in Procs |-> NoHeaders]
    /\ target = [p \in Procs |-> NilTarget]
    /\ srcFault = [p \in Procs |-> FALSE]
    /\ reqUrl = [p \in Procs |-> NoUrl]
    /\ reqHeader = [p \in Procs |-> NoHeaders]
    /\ srcReads = [p \in Procs |-> 0]
    /\ copied = [p \in Procs |-> <<>>]
    /\ cause = [p \in Procs |-> "nil"]
    /\ finalBody = [p \in Procs |-> NoBody]
    /\ errBody = [p \in Procs |-> NoPayload]
    /\ respBody = [p \in Procs |-> "none"]
    /\ badReq = [p \in Procs |-> FALSE]
    /\ unclosed = [p \in Procs |-> 0]
    /\ delay = [p \in Procs |-> NoDelay]
    /\ pipe = [p \in Procs |-> NoPipe]

InitFor(cs, limiter, limits, bodies, outcomes) ==
    InitWith(cs, Configs(BOOLEAN, limits, limiter, {1}, {0}, {NoHeaders}),
             Env(bodies, outcomes, PlainCall))

\* One caller, every configuration of the retry transport, every body and
\* outcome; a body reader may fail and a decode target may be passed.
Init ==
    InitWith({1}, Configs(BOOLEAN, RetryMaxValues, BOOLEAN, Revisions, {0}, {NoHeaders}),
             Env(Bodies, Outcomes,
                 [PlainCall EXCEPT !.targets = {NilTarget, ZeroTarget}, !.faults = BOOLEAN,
                                   !.respBodies = {RespBody(<<1>>, 1, FALSE)}]))

\* One caller, a server that answers 200, 404 or 500 only.
PlainInit ==
    InitFor({1}, BOOLEAN, RetryMaxValues, Bodies,
            {ErrOutcome} \cup {[err |-> FALSE, status |-> st] : st \in {200, 404, 500}})

\* Two callers contending for one limiter.
ConcInit ==
    InitFor(Procs, {TRUE}, {1}, {NilBody, [has |-> TRUE, bytes |-> <<7>>]},
            {ErrOutcome, [err |-> FALSE, status |-> 200], [err |-> FALSE, status |-> 500]})

\* Two callers of every verb method on two paths of one rate-limited client.
KeyInit ==
    InitWith(Procs, Configs({TRUE}, {1}, {TRUE}, {1}, {0}, {NoHeaders}),
             Env({NilBody}, {[err |-> FALSE, status |-> 500]},
                 [PlainCall EXCEPT !.verbs = Verbs, !.resources = {PathA, PathB}]))

\* One caller of every verb method with every resource, with and without a
\* decode target, of both revisions and every read limit, of a client with
\* or without a default header; the server
\* answers 200 or 404 with any of the response bodies.
VerbInit ==
    InitWith({1}, Configs(BOOLEAN, {1}, BOOLEAN, Revisions, ReadByteLimits, {NoHeaders, OneHeader}),
             Env({NilBody, [has |-> TRUE, bytes |-> <<7>>]},
                 {ErrOutcome, [err |-> FALSE, status |-> 200], [err |-> FALSE, status |-> 404]},
                 [PlainCall EXCEPT !.verbs = Verbs, !.resources = Resources,
                                   !.targets = {NilTarget, ZeroTarget},
                                   !.respBodies = RespBodies, !.nilCtx = BOOLEAN]))

\* One caller of a client with any default headers, passing any headers.
HeadInit ==
    InitWith({1}, Configs({TRUE}, {1}, BOOLEAN, {1}, {0}, HeaderMaps),
             Env({NilBody}, {[err |-> FALSE, status |-> 200], [err |-> FALSE, status |-> 500]},
                 [PlainCall EXCEPT !.headers = HeaderMaps]))

\* One caller of a client built with any options, retries on or off.
OptInit ==
    InitWith({1}, WithOpts(Configs(BOOLEAN, {1}, {FALSE}, {1}, {0}, {NoHeaders}), OptionLists),
             Env({NilBody, [has |-> TRUE, bytes |-> <<7>>]},
                 {ErrOutcome, [err |-> FALSE, status |-> 200], [err |-> FALSE, status |-> 500]},
                 PlainCall))

\* ----------------------------------------------------------------- actions

\* A return that hands back the response together with an error.
ResponseWithError(kind) == [resp |-> [status |-> 0, n |-> 1], err |-> kind]

\* `return nil, <error>`: every error return of the verb methods.
ErrorReturn(kind) == [resp |-> NoResp, err |-> kind]

\* The arguments a verb method can be called with: Get takes no body,
\* Stream no decode target, nor does Get in revision 2.
Callable(v, b, t, f) ==
    /\ v = "Get" => b = NilBody
    /\ (v = "Stream" \/ (v = "Get" /\ cfg.Rev = 2)) => t = NilTarget
    /\ f => b.has

\* A verb method that builds and sends the request right after resolving.
StraightToSend == "send"

\* What follows the parse and the resolution in every verb method: the
\* rate-limiter gate (`if c.limiter != nil`).
AfterResolve == "gate"

\* A caller invokes a verb method, with a context or with nil for it; the
\* method parses the resource and resolves it against the base address.
StartCall(p) ==
    /\ pc[p] = "idle"
    /\ \E v \in env.verbs, r \in env.resources, h \in env.headers, t \in env.targets,
          b \in env.bodies, f \in env.faults, c \in env.nilCtx :
        /\ Callable(v, b, t, f)
        /\ badReq' = [badReq EXCEPT ![p] = c]
        /\ verb' = [verb EXCEPT ![p] = v]
        /\ resource' = [resource EXCEPT ![p] = r]
        /\ hdrs' = [hdrs EXCEPT ![p] = h]
        /\ target' = [target EXCEPT ![p] = t]
        /\ srcFault' = [srcFault EXCEPT ![p] = f]
        /\ callBody' = [callBody EXCEPT ![p] = b]
        /\ srcLeft' = [srcLeft EXCEPT ![p] = b.bytes]
        /\ IF ParseRequestURI(r).ok
           THEN /\ reqUrl' = [reqUrl EXCEPT ![p] = FullUrl(r)]
                /\ pc' = [pc EXCEPT ![p] = AfterResolve]
                /\ UNCHANGED ret
           ELSE /\ pc' = [pc EXCEPT ![p] = "done"]
                /\ ret' = [ret EXCEPT ![p] = ErrorReturn("InvalidResource")]
                /\ UNCHANGED reqUrl
    /\ UNCHANGED <<unclosed, delay, pipe, cfg, callers, env, limiterVars, ctxDone, sleepLeft, reqBody,
                   bodyBytes, sentFirst, sentLast, rtVars, gateVars, reqHeader, readVars, outVars>>

\* A gate that lets a limited call through.
GateNeverSleeps(limited) == FALSE

\* A gate that sleeps after every check.
GateAlwaysSleeps(limited) == TRUE

\* The gate's loop in every verb method: a limited check sleeps and checks
\* again, any other leaves the loop.
GateSleeps(limited) == limited

\* The rate-limiter gate: one RateLimitCtx call and what the loop does with it.
RateLimitGate(p) ==
    /\ pc[p] = "gate"
    /\ sleepLeft[p] = 0
    /\ IF ~cfg.RateLimiter
       THEN /\ pc' = [pc EXCEPT ![p] = "send"]
            /\ UNCHANGED <<limiterVars, sleepLeft, gateVars, ret>>
       ELSE \/ /\ pc' = [pc EXCEPT ![p] = "done"]       \* the store failed
               /\ ret' = [ret EXCEPT ![p] = ErrorReturn("limiter")]
               /\ UNCHANGED <<limiterVars, sleepLeft, gateVars>>
            \/ /\ GateSleeps(Limited(p))
               /\ sleepLeft' = [sleepLeft EXCEPT ![p] = RetryAfter(p)]
               /\ gateRounds' = [gateRounds EXCEPT ![p] = Min(@ + 1, MaxGateRounds)]
               /\ UNCHANGED <<limiterVars, pc, admits, ret>>
            \/ /\ ~GateSleeps(Limited(p))
               /\ tat' = IF Limited(p) THEN tat
                         ELSE [tat EXCEPT ![RateLimitKey(p)] = Quantity * EmissionInterval]
               /\ admits' = [admits EXCEPT ![p] = IF Limited(p) THEN @ ELSE @ + Quantity]
               /\ lastGap' = sincePass
               /\ sincePass' = 0
               /\ pc' = [pc EXCEPT ![p] = "send"]
               /\ UNCHANGED <<sleepLeft, gateRounds, ret>>
    /\ UNCHANGED <<lateVars, cfg, callers, env, ctxDone, bodyVars, rtVars, inVars, reqVars, readVars, outVars>>

\* One round trip of the base transport with req.Body = b: it reads the body
\* to its end and answers o.
Attempt(p, b, o) ==
    /\ sentLast' = [sentLast EXCEPT ![p] = Readable(p, b)]
    /\ sentFirst' = [sentFirst EXCEPT ![p] = IF attempts[p] = 0 THEN Readable(p, b) ELSE @]
    /\ reqBody' = [reqBody EXCEPT ![p] = [b EXCEPT !.left = <<>>]]
    /\ attempts' = [attempts EXCEPT ![p] = @ + 1]
    /\ resp' = [resp EXCEPT ![p] =
                  IF o.err THEN NoResp ELSE [status |-> o.status, n |-> attempts[p] + 1]]
    /\ err' = [err EXCEPT ![p] = o.err]
    /\ onlyBad' = [onlyBad EXCEPT ![p] = @ /\ ~o.err /\ o.status \notin 200..299]
    /\ respBody' = [respBody EXCEPT ![p] = IF o.err THEN "none" ELSE "open"]

\* Where RoundTrip goes after an attempt: into the loop body (its first
\* statement is the sleep) or to its return.
AfterAttempt(p) ==
    IF LoopCond(resp'[p], err'[p], retries'[RetriesOf(p)])
    THEN /\ pc' = [pc EXCEPT ![p] = "backoff"]
         /\ delay' = [delay EXCEPT ![p] = backoff(retries'[RetriesOf(p)])]
         /\ sleepLeft' = [sleepLeft EXCEPT ![p] = Sleep(delay'[p])]
    ELSE /\ pc' = [pc EXCEPT ![p] = "classify"]
         /\ UNCHANGED <<sleepLeft, delay>>

\* The verb method builds the request, which fails for a nil context, and
\* calls Http.Do: the bare base
\* transport, or RoundTrip up to the end of its first attempt.  RoundTrip
\* first reads a non-nil body to its end; a read error ends it there.  The
\* bare transport cannot send a body whose reader fails.
Do(p) ==
    /\ pc[p] = "send"
    /\ IF badReq[p]
       THEN /\ ret' = [ret EXCEPT ![p] = ErrorReturn(NewRequestError(verb[p]))]
            /\ pc' = [pc EXCEPT ![p] = "done"]
            /\ UNCHANGED <<reqHeader, readVars, srcLeft, reqBody, bodyBytes, sentFirst, sentLast,
                           rtVars, sleepLeft, delay, respBody>>
       ELSE /\ UNCHANGED ret
            /\ \E h \in RequestHeaders(p) : reqHeader' = [reqHeader EXCEPT ![p] = h]
            /\ srcReads' = [srcReads EXCEPT ![p] = IF callBody[p].has THEN @ + 1 ELSE @]
            /\ srcLeft' = [srcLeft EXCEPT ![p] = <<>>]
            /\ IF Http.retry /\ callBody[p].has /\ ReadAllFails(p)
               THEN /\ err' = [err EXCEPT ![p] = TRUE]
                    /\ cause' = [cause EXCEPT ![p] = "CopyError"]
                    /\ reqBody' = [reqBody EXCEPT ![p] = SrcReader]
                    /\ pc' = [pc EXCEPT ![p] = "classify"]
                    /\ UNCHANGED <<sentFirst, sentLast, attempts, retries, resp, onlyBad, bodyBytes,
                                   copied, sleepLeft, delay, respBody>>
               ELSE \E o \in (IF srcFault[p] THEN {ErrOutcome} ELSE BaseOutcomes(p)) :
                    /\ cause' = [cause EXCEPT ![p] = IF o.err THEN "send" ELSE "nil"]
                    /\ IF Http.retry
                       THEN \* the body is read into the if block's own bodyBytes
                            /\ copied' = [copied EXCEPT ![p] = srcLeft[p]]
                            /\ Attempt(p, IF callBody[p].has THEN NewBuffer(srcLeft[p]) ELSE NilReader, o)
                            /\ UNCHANGED <<retries, bodyBytes>>
                            /\ AfterAttempt(p)
                       ELSE /\ Attempt(p, IF callBody[p].has THEN SrcReader ELSE NilReader, o)
                            /\ pc' = [pc EXCEPT ![p] = "classify"]
                            /\ UNCHANGED <<retries, bodyBytes, copied, sleepLeft, delay>>
    /\ UNCHANGED <<badReq, unclosed, pipe, cfg, callers, env, limiterVars, ctxDone, callBody, gateVars,
                   inVars, reqUrl, finalBody, errBody>>

\* One pass of RoundTrip's loop body after its sleep: drain the previous
\* response, rewind the body, send again, count the retry.
Retry(p) ==
    /\ pc[p] = "backoff"
    /\ sleepLeft[p] = 0
    /\ IF resp[p] = NoResp
       THEN \* resp.Body on a nil resp
            /\ pc' = [pc EXCEPT ![p] = "panic"]
            /\ UNCHANGED <<sleepLeft, delay, reqBody, sentFirst, sentLast, rtVars, cause,
                           respBody, unclosed>>
       ELSE \E o \in BaseOutcomes(p) :
            /\ unclosed' = [unclosed EXCEPT ![p] =
                               IF DiscardBody(respBody[p]) = "closed" THEN @ ELSE @ + 1]
            /\ Attempt(p, IF reqBody[p] # NilReader THEN NewBuffer(bodyBytes[p]) ELSE NilReader, o)
            /\ cause' = [cause EXCEPT ![p] = IF o.err THEN "send" ELSE "nil"]
            /\ retries' = [retries EXCEPT ![RetriesOf(p)] = @ + 1]
            /\ AfterAttempt(p)
    /\ UNCHANGED <<badReq, pipe, cfg, callers, env, limiterVars, ctxDone, callBody, srcLeft, bodyBytes,
                   gateVars, ret, inVars, reqVars, srcReads, copied, finalBody, errBody>>

\* The verb method after Http.Do returned: a send error, a status the check
\* `StatusCode/10 != 20` refuses, a decode, or the response as it is; Stream
\* returns the read side of a new pipe and starts the copy task.
Classify(p) ==
    /\ pc[p] = "classify"
    /\ IF err[p]
       THEN /\ ret' = [ret EXCEPT ![p] = ErrorReturn("RequestError")]
            /\ UNCHANGED <<target, outVars, pipe>>
       ELSE \E b \in env.respBodies :
            /\ finalBody' = [finalBody EXCEPT ![p] = b]
            /\ IF GoDiv(resp[p].status, 10) # 20
               THEN /\ ret' = [ret EXCEPT ![p] =
                                 ErrorReturn(IF CopyFails(b) THEN "CopyError" ELSE "BadStatusCode")]
                    /\ errBody' = [errBody EXCEPT ![p] =
                                     IF CopyFails(b) THEN NoPayload ELSE StatusPayload(resp[p].status, b)]
                    /\ respBody' = [respBody EXCEPT ![p] = BodyAtReturn(verb[p], "status")]
                    /\ UNCHANGED <<target, pipe>>
               ELSE IF target[p].has /\ ~Decode(b).ok
               THEN /\ ret' = [ret EXCEPT ![p] = ErrorReturn("DecodeError")]
                    /\ respBody' = [respBody EXCEPT ![p] = BodyAtReturn(verb[p], "decode")]
                    /\ UNCHANGED <<target, errBody, pipe>>
               ELSE /\ ret' = [ret EXCEPT ![p] = [resp |-> resp[p], err |-> "nil"]]
                    /\ pipe' = [pipe EXCEPT ![p] = IF verb[p] = "Stream" THEN NewPipe(b) ELSE @]
                    /\ target' = [target EXCEPT ![p] =
                                    IF @.has THEN [@ EXCEPT !.val = Decode(b).val] ELSE @]
                    /\ respBody' = [respBody EXCEPT ![p] = BodyAtReturn(verb[p], "ok")]
                    /\ UNCHANGED errBody
    /\ pc' = [pc EXCEPT ![p] = "done"]
    /\ UNCHANGED <<badReq, unclosed, delay, cfg, callers, env, limiterVars, ctxDone, sleepLeft, bodyVars, rtVars, gateVars,
                   verb, resource, hdrs, srcFault, reqVars, readVars>>

\* The caller takes the result, and is through with the reader of a
\* stream; its next call starts afresh.
Return(p) ==
    /\ pc[p] = "done"
    /\ pipe[p].w # "open"
    /\ pipe' = [pipe EXCEPT ![p] = NoPipe]
    /\ pc' = [pc EXCEPT ![p] = "idle"]
    /\ ctxDone' = [ctxDone EXCEPT ![p] = FALSE]
    /\ callBody' = [callBody EXCEPT ![p] = NilBody]
    /\ srcLeft' = [srcLeft EXCEPT ![p] = <<>>]
    /\ reqBody' = [reqBody EXCEPT ![p] = NilReader]
    /\ sentFirst' = [sentFirst EXCEPT ![p] = <<>>]
    /\ sentLast' = [sentLast EXCEPT ![p] = <<>>]
    /\ attempts' = [attempts EXCEPT ![p] = 0]
    /\ retries' = [retries EXCEPT ![p] = 0]
    /\ resp' = [resp EXCEPT ![p] = NoResp]
    /\ err' = [err EXCEPT ![p] = FALSE]
    /\ onlyBad' = [onlyBad EXCEPT ![p] = TRUE]
    /\ admits' = [admits EXCEPT ![p] = 0]
    /\ gateRounds' = [gateRounds EXCEPT ![p] = 0]
    /\ ret' = [ret EXCEPT ![p] = NoRet]
    /\ verb' = [verb EXCEPT ![p] = ""]
    /\ resource' = [resource EXCEPT ![p] = NoUrl]
    /\ hdrs' = [hdrs EXCEPT ![p] = NoHeaders]
    /\ target' = [target EXCEPT ![p] = NilTarget]
    /\ srcFault' = [srcFault EXCEPT ![p] = FALSE]
    /\ reqUrl' = [reqUrl EXCEPT ![p] = NoUrl]
    /\ reqHeader' = [reqHeader EXCEPT ![p] = NoHeaders]
    /\ srcReads' = [srcReads EXCEPT ![p] = 0]
    /\ copied' = [copied EXCEPT ![p] = <<>>]
    /\ cause' = [cause EXCEPT ![p] = "nil"]
    /\ finalBody' = [finalBody EXCEPT ![p] = NoBody]
    /\ errBody' = [errBody EXCEPT ![p] = NoPayload]
    /\ respBody' = [respBody EXCEPT ![p] = "none"]
    /\ delay' = [delay EXCEPT ![p] = NoDelay]
    /\ unclosed' = [unclosed EXCEPT ![p] = 0]
    /\ badReq' = [badReq EXCEPT ![p] = FALSE]
    /\ UNCHANGED <<cfg, callers, env, limiterVars, sleepLeft, bodyBytes>>

\* The caller's context is cancelled, or its deadline passes, during the call.
Cancel(p) ==
    /\ pc[p] \in {"gate", "send", "backoff"} \/ pipe[p].w = "open"
    /\ ~ctxDone[p]
    /\ ~badReq[p]
    /\ ctxDone' = [ctxDone EXCEPT ![p] = TRUE]
    /\ UNCHANGED <<lateVars, cfg, callers, env, limiterVars, pc, sleepLeft, bodyVars, rtVars, gateVars, ret,
                   inVars, reqVars, readVars, outVars>>

\* One second passes: every running timer counts down.
Tick ==
    /\ \/ \E k \in LimiterKeys : tat[k] > 0
       \/ sincePass < EmissionInterval
       \/ \E p \in callers : sleepLeft[p] > 0
    /\ tat' = [k \in LimiterKeys |-> Max(tat[k] - 1, 0)]
    /\ sincePass' = Min(sincePass + 1, EmissionInterval)
    /\ sleepLeft' = [p \in Procs |-> Max(sleepLeft[p] - 1, 0)]
    /\ UNCHANGED <<lateVars, cfg, callers, env, lastGap, pc, ctxDone, bodyVars, rtVars, gateVars, ret,
                   inVars, reqVars, readVars, outVars>>

\* io.Copy reads the next chunk from resp.Body; a cancelled context fails
\* the read.
CopyRead(p) ==
    /\ pipe[p].w = "open"
    /\ pipe[p].held = <<>>
    /\ pipe[p].left # <<>>
    /\ ~ctxDone[p]
    /\ pipe' = [pipe EXCEPT ![p] = [@ EXCEPT !.left = Tail(@), !.held = <<Head(pipe[p].left)>>]]
    /\ UNCHANGED <<badReq, unclosed, delay, cfg, callers, env, limiterVars, pc, ctxDone, sleepLeft,
                   bodyVars, rtVars, gateVars, ret, inVars, reqVars, readVars, outVars>>

\* io.Copy's pw.Write of the chunk returns: the pipe has no buffer, so it
\* does when the caller's Read on the returned reader takes the chunk.
Relay(p) ==
    /\ pipe[p].w = "open"
    /\ pipe[p].held # <<>>
    /\ pipe' = [pipe EXCEPT ![p] = [@ EXCEPT !.held = <<>>, !.got = @ \o pipe[p].held]]
    /\ UNCHANGED <<badReq, unclosed, delay, cfg, callers, env, limiterVars, pc, ctxDone, sleepLeft,
                   bodyVars, rtVars, gateVars, ret, inVars, reqVars, readVars, outVars>>

\* The read of resp.Body that ends the copy reports an error: the context
\* is cancelled, or the body's last read fails.
CopyReadFails(p) == ctxDone[p] \/ finalBody[p].fails

\* io.Copy returns, at the end of the body or on a failed read (an error
\* that revision 2 prints and revision 1 drops), and the deferred
\* pw.Close() and resp.Body.Close() run.
CopyEnd(p) ==
    /\ pipe[p].w = "open"
    /\ pipe[p].held = <<>>
    /\ pipe[p].left = <<>> \/ ctxDone[p]
    /\ pipe' = [pipe EXCEPT ![p] = [@ EXCEPT !.w = "closed", !.failed = CopyReadFails(p)]]
    /\ respBody' = [respBody EXCEPT ![p] = "closed"]
    /\ UNCHANGED <<badReq, unclosed, delay, cfg, callers, env, limiterVars, pc, ctxDone, sleepLeft,
                   bodyVars, rtVars, gateVars, ret, inVars, reqVars, readVars, finalBody, errBody>>

\* A write side closed with the copy's error, which the reader would get.
CloseWithError(failed) == IF failed THEN "error" ELSE "EOF"

\* What Read returns on a pipe whose write side the task closed: the task
\* calls pw.Close(), whatever io.Copy returned, and Read gives io.EOF.
PipeClose(failed) == "EOF"

\* The caller's Read on a pipe whose write side is closed.
ReadEOF(p) ==
    /\ pipe[p].w = "closed"
    /\ ~pipe[p].eof
    /\ pipe' = [pipe EXCEPT ![p] = [@ EXCEPT !.eof = TRUE, !.seen = PipeClose(pipe[p].failed)]]
    /\ UNCHANGED <<badReq, unclosed, delay, cfg, callers, env, limiterVars, pc, ctxDone, sleepLeft,
                   bodyVars, rtVars, gateVars, ret, inVars, reqVars, readVars, outVars>>

Next ==
    \/ \E p \in callers : StartCall(p)
    \/ \E p \in callers : RateLimitGate(p)
    \/ \E p \in callers : Do(p)
    \/ \E p \in callers : Retry(p)
    \/ \E p \in callers : Classify(p)
    \/ \E p \in callers : Return(p)
    \/ \E p \in callers : Cancel(p)
    \/ Tick

\* The steps of a program that streams.
StreamNext ==
    \/ Next
    \/ \E p \in callers : CopyRead(p)
    \/ \E p \in callers : Relay(p)
    \/ \E p \in callers : CopyEnd(p)
    \/ \E p \in callers : ReadEOF(p)

Spec == Init /\ [][Next]_vars

PlainSpec == PlainInit /\ [][Next]_vars

ConcSpec == ConcInit /\ [][Next]_vars

KeySpec == KeyInit /\ [][Next]_vars

VerbSpec == VerbInit /\ [][StreamNext]_vars

HeadSpec == HeadInit /\ [][Next]_vars

OptSpec == OptInit /\ [][Next]_vars

\* RoundTrip's loop with each sleep taken as one step, against a base
\* transport that answers every call with a 500: the first attempt, ...
FirstAttempt(p) ==
    /\ pc[p] = "idle"
    /\ pc' = [pc EXCEPT ![p] = "loop"]
    /\ attempts' = [attempts EXCEPT ![p] = 1]
    /\ resp' = [resp EXCEPT ![p] = [status |-> 500, n |-> 1]]
    /\ UNCHANGED <<lateVars, cfg, callers, env, limiterVars, ctxDone, sleepLeft, bodyVars,
                   sentFirst, sentLast, retries, err, onlyBad, gateVars, ret, inVars, reqVars,
                   readVars, outVars>>

\* ... the loop condition and `time.Sleep(backoff(retries))`, ...
SleepBackoff(p) ==
    /\ pc[p] = "loop"
    /\ LoopCond(resp[p], err[p], retries[RetriesOf(p)])
    /\ delay' = [delay EXCEPT ![p] = backoff(retries[RetriesOf(p)])]
    /\ pc' = [pc EXCEPT ![p] = "wake"]
    /\ UNCHANGED <<badReq, unclosed, pipe, cfg, callers, env, limiterVars, ctxDone, sleepLeft,
                   bodyVars, rtVars, gateVars, ret, inVars, reqVars, readVars, outVars>>

\* ... the next attempt and `retries++`, ...
NextAttempt(p) ==
    /\ pc[p] = "wake"
    /\ attempts' = [attempts EXCEPT ![p] = @ + 1]
    /\ retries' = [retries EXCEPT ![RetriesOf(p)] = @ + 1]
    /\ resp' = [resp EXCEPT ![p] = [status |-> 500, n |-> attempts[p] + 1]]
    /\ pc' = [pc EXCEPT ![p] = "loop"]
    /\ UNCHANGED <<lateVars, cfg, callers, env, limiterVars, ctxDone, sleepLeft, bodyVars,
                   sentFirst, sentLast, err, onlyBad, gateVars, ret, inVars, reqVars,
                   readVars, outVars>>

\* ... and the return when the loop condition fails.
LoopExit(p) ==
    /\ pc[p] = "loop"
    /\ ~LoopCond(resp[p], err[p], retries[RetriesOf(p)])
    /\ pc' = [pc EXCEPT ![p] = "idle"]
    /\ attempts' = [attempts EXCEPT ![p] = 0]
    /\ retries' = [retries EXCEPT ![p] = 0]
    /\ resp' = [resp EXCEPT ![p] = NoResp]
    /\ delay' = [delay EXCEPT ![p] = NoDelay]
    /\ UNCHANGED <<badReq, unclosed, pipe, cfg, callers, env, limiterVars, ctxDone, sleepLeft,
                   bodyVars, sentFirst, sentLast, err, onlyBad, gateVars, ret, inVars, reqVars,
                   readVars, outVars>>

BackoffNext ==
    \/ \E p \in callers : FirstAttempt(p)
    \/ \E p \in callers : SleepBackoff(p)
    \/ \E p \in callers : NextAttempt(p)
    \/ \E p \in callers : LoopExit(p)

\* Two requests through a retry transport of the largest limit.
BackoffInit ==
    InitWith(Procs, Configs({TRUE}, {MaxRetryLimit}, {FALSE}, {1}, {0}, {NoHeaders}),
             Env({NilBody}, {[err |-> FALSE, status |-> 500]}, PlainCall))

BackoffSpec == BackoffInit /\ [][BackoffNext]_vars

\* The steps of a call that is under way: the goroutine scheduler runs every
\* runnable goroutine eventually, and time passes.  A limiter error is
\* possible at every check and never owed to anyone.
Progress(p) ==
    \/ RateLimitGate(p) /\ ret'[p] = ret[p]
    \/ Do(p)
    \/ Retry(p)
    \/ Classify(p)
    \/ Return(p)

FairSpec == ConcSpec /\ WF_vars(Tick) /\ \A p \in Procs : WF_vars(Progress(p))

\* ------------------------------------------------------------------ claims

Is2xx(status) == status \in 200..299

Returned(p) == pc[p] \in {"classify", "done"} /\ attempts[p] >= 1

\* C1: with the retry transport and a non-nil body, every attempt hands the
\* base transport the caller's original bytes, the same as attempt 1.
C1_SameBytesEveryAttempt ==
    \A p \in callers :
        (getRoundTripper /\ callBody[p].has /\ attempts[p] >= 1) =>
            /\ sentFirst[p] = callBody[p].bytes
            /\ sentLast[p] = sentFirst[p]

\* C2: failing attempts (transport error or non-2xx response) within the
\* retry limit are followed by further attempts without fault, and a 2xx
\* response ends RoundTrip at once: it is returned with a nil error.
C2_SuccessAfterFailures ==
    \A p \in callers :
        getRoundTripper =>
            /\ pc[p] # "panic"
            /\ (attempts[p] >= 1 /\ ~err[p] /\ Is2xx(resp[p].status)) =>
                   /\ Returned(p)
                   /\ resp[p].n = attempts[p]

\* C3: when every attempt answers with a non-2xx response, RoundTrip makes
\* exactly retryMax + 1 attempts and returns the last response, nil error.
C3_ExhaustedReturnsLast ==
    \A p \in callers :
        (getRoundTripper /\ retryMax >= 0 /\ onlyBad[p] /\ attempts[p] >= 1) =>
            /\ pc[p] \in {"backoff", "classify", "done"}
            /\ (pc[p] = "backoff") = (attempts[p] < retryMax + 1)
            /\ Returned(p) =>
                   /\ attempts[p] = retryMax + 1
                   /\ ~err[p]
                   /\ resp[p].n = attempts[p]
                   /\ ~Is2xx(resp[p].status)

C3_Witness ==
    \E p \in callers :
        /\ getRoundTripper /\ retryMax = DefaultRetryMax /\ onlyBad[p]
        /\ pc[p] = "classify" /\ attempts[p] = retryMax + 1

\* C4: with RetryEnabled false a call that reaches the send step makes
\* exactly one attempt on the base transport, whatever the outcome.
C4_OneAttemptWithoutRetry ==
    \A p \in callers :
        ~cfg.RetryEnabled =>
            /\ attempts[p] <= 1
            /\ pc[p] # "backoff"
            /\ (pc[p] = "classify" \/ (pc[p] = "done" /\ ret[p].err # "limiter")) =>
                   attempts[p] = 1

C4_Witness ==
    \E p \in callers :
        /\ ~cfg.RetryEnabled /\ pc[p] = "done" /\ attempts[p] = 1
        /\ ret[p].err \in {"BadStatusCode", "RequestError"}

\* C5: an outcome is retryable exactly when the send failed or the status is
\* outside 200..299, and the verb methods report BadStatusCode for exactly
\* the statuses outside 200..299.
C5_RetryableIffNot2xx ==
    \A p \in callers :
        attempts[p] >= 1 =>
            /\ shouldRetry(resp[p], err[p]) = (err[p] \/ ~Is2xx(resp[p].status))
            /\ (pc[p] = "done" /\ ~err[p]) =>
                   (ret[p].err = "BadStatusCode") = ~Is2xx(resp[p].status)

Asleep(p) == pc[p] \in {"gate", "backoff"} /\ sleepLeft[p] > 0

\* C6: a call whose context is cancelled while it sleeps (gate or backoff)
\* does not wait out the sleep: it returns a cancellation error and makes
\* no further attempt.
C6_CancelAbortsSleep ==
    [][\A p \in callers :
          (ctxDone[p] /\ Asleep(p)) =>
              /\ sleepLeft'[p] = sleepLeft[p] \/ pc'[p] = "done"
              /\ attempts'[p] = attempts[p]
              /\ pc'[p] # pc[p] => (pc'[p] = "done" /\ ret'[p].err = "Canceled")]_vars

C8_GateBeforeEachAttempt ==
    \A p \in callers : cfg.RateLimiter => attempts[p] <= admits[p]

\* C8 amended: a call passes the gate once, before its first attempt; the
\* retry transport's further attempts consume no quota.
C8_GateOncePerCall ==
    \A p \in callers :
        cfg.RateLimiter =>
            /\ admits[p] <= 1
            /\ attempts[p] >= 1 => admits[p] = 1
            /\ pc[p] \in {"send", "backoff", "classify", "panic"} => admits[p] = 1

C8_Witness ==
    \E p \in callers : cfg.RateLimiter /\ attempts[p] >= 2 /\ admits[p] = 1

Admitted(p) == pc[p] = "send" \/ ret[p].err = "limiter"

\* C9 as stated: every call that enters the gate is eventually admitted,
\* unless the limiter reports an error to it.
C9_EveryCallAdmitted ==
    \A p \in Procs : (pc[p] = "gate") ~> Admitted(p)

\* C9 amended: while calls wait at the gate some call is eventually
\* admitted (or gets a limiter error); the gate has no other way out.
C9_SomeCallAdmitted ==
    /\ (\E p \in Procs : pc[p] = "gate") ~> (\E p \in Procs : Admitted(p))
    /\ [][\A p \in Procs :
            (pc[p] = "gate" /\ pc'[p] # "gate") => Admitted(p)']_vars

C9_Witness ==
    \E p, q \in callers :
        /\ p # q
        /\ pc[p] = "gate" /\ gateRounds[p] >= 2 /\ sleepLeft[p] > 0
        /\ pc[q] = "send" /\ gateRounds[q] >= 1

\* C10: a gate check ends in one of three ways: permitted (a unit is
\* consumed and the call goes on to send), limited (the call sleeps
\* RetryAfter and checks again, with no cap on the rounds), or limiter error
\* (the call returns it with a nil response and nothing is sent).
C10_GateOutcomes ==
    [][\A p \in callers :
          (cfg.RateLimiter /\ pc[p] = "gate" /\ sleepLeft[p] = 0
             /\ (pc'[p] # "gate" \/ sleepLeft'[p] # 0)) =>
              \/ /\ ~Limited(p)
                 /\ pc'[p] = "send" /\ admits'[p] = admits[p] + 1
                 /\ tat'[BaseUrl] = EmissionInterval
              \/ /\ Limited(p)
                 /\ pc'[p] = "gate" /\ sleepLeft'[p] = RetryAfter(p)
                 /\ admits'[p] = admits[p] /\ tat' = tat
              \/ /\ pc'[p] = "done" /\ ret'[p] = [resp |-> NoResp, err |-> "limiter"]
                 /\ attempts'[p] = 0 /\ admits'[p] = admits[p] /\ tat' = tat]_vars

C10_Witness ==
    \E p \in callers :
        /\ cfg.RateLimiter /\ getRoundTripper
        /\ gateRounds[p] > retryMax /\ admits[p] = 1 /\ pc[p] = "send"

\* C11: every verb method charges the bucket of one key, the base address,
\* whatever the path: no other bucket is ever charged, and a call of any
\* verb and path is admitted only when that bucket is free and consumes
\* exactly one unit of it.
C11_OneKeyOneUnit ==
    [][/\ \A k \in LimiterKeys \ {BaseUrl} : tat'[k] = 0
       /\ \A p \in callers :
             (cfg.RateLimiter /\ pc[p] = "gate" /\ pc'[p] = "send") =>
                 /\ tat[BaseUrl] = 0
                 /\ tat'[BaseUrl] = EmissionInterval
                 /\ admits'[p] = admits[p] + 1]_vars

C11_Witness ==
    \E p, q \in callers :
        /\ verb[p] = "Get" /\ verb[q] = "Stream" /\ resource[p] # resource[q]
        /\ pc[p] = "send" /\ admits[p] = 1
        /\ pc[q] = "gate" /\ sleepLeft[q] > 0 /\ admits[q] = 0

\* A resource that is no relative reference: it carries its own scheme or
\* host, or it does not parse.
NotRelative(r) == r.scheme # "" \/ r.host # "" \/ ~ParseRequestURI(r).ok

\* C12: a call whose resource is no relative reference (malformed, or an
\* absolute URL) returns a nil response and InvalidResource, consumes no
\* quota and makes no attempt.
C12_InvalidResourceRejected ==
    \A p \in callers :
        (pc[p] # "idle" /\ NotRelative(resource[p])) =>
            /\ pc[p] = "done"
            /\ ret[p] = [resp |-> NoResp, err |-> "InvalidResource"]
            /\ admits[p] = 0
            /\ attempts[p] = 0

\* The verb method has returned after Http.Do gave it a response.
GotResponse(p) == pc[p] = "done" /\ attempts[p] >= 1 /\ ~err[p]

C14_PayloadWithinLimit ==
    \A p \in callers :
        (GotResponse(p) /\ ~Is2xx(resp[p].status) /\ ret[p].err = "BadStatusCode"
           /\ cfg.ReadByteLimit >= 0) =>
            LET B == finalBody[p].len
                M == IF cfg.ReadByteLimit = 0 THEN DefaultReadByteLimit ELSE cfg.ReadByteLimit
            IN /\ errBody[p].n = Min(B, M)
               /\ errBody[p].n <= M
               /\ B > M => errBody[p].n = M

\* C15: a 2xx final response of Get, Post, Put, Delete or Patch, decoded
\* without error where a target was passed, is returned with a nil error
\* and its body open.
C15_SuccessBodyOpen ==
    \A p \in callers :
        (GotResponse(p) /\ Is2xx(resp[p].status) /\ verb[p] # "Stream"
           /\ (target[p].has => Decode(finalBody[p]).ok)) =>
            /\ ret[p] = [resp |-> resp[p], err |-> "nil"]
            /\ respBody[p] = "open"

\* C16: on a 2xx final response with a decode target the body is decoded
\* into the target and the response returned with a nil error; when the
\* decode fails the call returns a nil response and DecodeError with the
\* body closed, and the response decoded was that of the last attempt.
C16_DecodeOn2xx ==
    \A p \in callers :
        (GotResponse(p) /\ Is2xx(resp[p].status) /\ target[p].has) =>
            /\ resp[p].n = attempts[p]
            /\ IF Decode(finalBody[p]).ok
               THEN /\ ret[p] = [resp |-> resp[p], err |-> "nil"]
                    /\ target[p].val = finalBody[p].head[1]
               ELSE /\ ret[p] = [resp |-> NoResp, err |-> "DecodeError"]
                    /\ respBody[p] = "closed"

\* C17: when a verb method returns an error after the transport gave it a
\* response (status error, failed copy of the error body, decode error),
\* the body of that response is closed.
C17_ErrorReturnClosesBody ==
    \A p \in callers :
        (GotResponse(p) /\ ret[p].err # "nil") =>
            /\ ret[p].err \in {"BadStatusCode", "CopyError", "DecodeError"}
            /\ ret[p].resp = NoResp
            /\ respBody[p] = "closed"

C17_Witness ==
    \E p \in callers :
        /\ GotResponse(p) /\ verb[p] = "Stream" /\ cfg.Rev = 1
        /\ ret[p].err = "BadStatusCode" /\ finalBody[p].fails /\ respBody[p] = "closed"

\* C18: with the retry transport, when reading the caller's body fails
\* RoundTrip returns a nil response and a copy error, which is neither a
\* send error nor a status error, and the base transport is not invoked.
C18_ReadFailureBeforeSend ==
    \A p \in callers :
        (getRoundTripper /\ callBody[p].has /\ srcFault[p] /\ srcReads[p] >= 1) =>
            /\ pc[p] \in {"classify", "done"}
            /\ resp[p] = NoResp
            /\ err[p]
            /\ cause[p] = "CopyError"
            /\ attempts[p] = 0
            /\ pc[p] = "done" => ret[p] = [resp |-> NoResp, err |-> "RequestError"]

C18_Witness ==
    \E p \in callers :
        /\ getRoundTripper /\ callBody[p].bytes = <<7, 8>> /\ srcFault[p]
        /\ pc[p] = "classify" /\ cause[p] = "CopyError" /\ attempts[p] = 0 /\ srcReads[p] = 1

\* C19: with the retry transport the caller's body reader is read once, to
\* its end, before the first attempt and never again, and every attempt,
\* the first included, reads from a reader over the in-memory copy.
C19_SourceReadOnce ==
    \A p \in callers :
        (getRoundTripper /\ callBody[p].has /\ ~srcFault[p]) =>
            /\ srcReads[p] <= 1
            /\ attempts[p] >= 1 =>
                   /\ srcReads[p] = 1
                   /\ srcLeft[p] = <<>>
                   /\ copied[p] = callBody[p].bytes
                   /\ reqBody[p].kind = "buf"
                   /\ sentLast[p] = copied[p]

\* The header names of a map and the values the map gives a name, names
\* compared as HTTP compares them.
Names(m) == {CanonicalMIMEHeaderKey(k) : k \in DOMAIN m}

Given(m, n) == {m[k] : k \in {x \in DOMAIN m : CanonicalMIMEHeaderKey(x) = n}}

\* C20: the headers of every request sent are the client's defaults
\* overridden by the per-call headers: a header in both goes out with the
\* per-call value, a header in one of them with that one's value, and no
\* other header is set; the call does not change the default headers.
C20_PerCallHeadersWin ==
    [][/\ cfg'.Headers = cfg.Headers
       /\ \A p \in callers :
             attempts'[p] >= 1 =>
                 /\ DOMAIN reqHeader'[p] = Names(cfg.Headers) \cup Names(hdrs'[p])
                 /\ \A n \in DOMAIN reqHeader'[p] :
                       IF n \in Names(hdrs'[p])
                       THEN reqHeader'[p][n] \in Given(hdrs'[p], n)
                       ELSE reqHeader'[p][n] \in Given(cfg.Headers, n)]_vars

C20_Witness ==
    \E p \in callers :
        /\ attempts[p] = 2
        /\ cfg.Headers = [k \in {"x-a", "X-B"} |-> "v1"]
        /\ hdrs[p] = [k \in {"X-A"} |-> "v2"]
        /\ reqHeader[p] = [k \in {"X-A", "X-B"} |-> IF k = "X-A" THEN "v2" ELSE "v1"]

\* C24: whatever the attempts' outcomes, RoundTrip ends without fault
\* after at most L + 1 attempts with the pair of its last attempt, and
\* while retries remain a transport error is followed by a backoff and then
\* by another attempt.
C24_TerminatesWithLastPair ==
    [][\A p \in callers :
          (getRoundTripper /\ attempts[p] >= 1) =>
              /\ attempts'[p] <= Max(retryMax, 0) + 1
              /\ (err[p] /\ retries[p] < retryMax) => pc[p] = "backoff"
              /\ (pc[p] = "backoff" /\ pc'[p] # "backoff") =>
                     /\ attempts'[p] = attempts[p] + 1
                     /\ pc'[p] \in {"backoff", "classify"}
              /\ pc'[p] = "classify" =>
                     /\ err'[p] = (resp'[p] = NoResp)
                     /\ ~err'[p] => resp'[p].n = attempts'[p]]_vars

\* The attempts a request makes when every one of them fails, by the
\* configured limit: 0 stands for the default, a negative limit for none.
AttemptsFor(limit) ==
    IF limit = 0 THEN DefaultRetryMax + 1 ELSE IF limit < 0 THEN 1 ELSE limit + 1

\* C27: RoundTrip is in a backoff only while the retries made are below the
\* limit, and a request whose every attempt failed has made 4 attempts with
\* the configured limit 0, one attempt with a limit below 0, and limit + 1
\* attempts otherwise.
C27_LimitSemantics ==
    \A p \in callers :
        (getRoundTripper /\ attempts[p] >= 1) =>
            /\ pc[p] = "backoff" => retries[p] < retryMax
            /\ (pc[p] # "backoff" /\ shouldRetry(resp[p], err[p])) =>
                   attempts[p] = AttemptsFor(cfg.RetryMax)

\* What RoundTrip holds for caller p's request.
RetryState(p) ==
    <<attempts[p], retries[p], reqBody[p], bodyBytes[p], sentFirst[p], sentLast[p],
      resp[p], err[p]>>

\* C22: the retry state of one request changes only in that request's own
\* steps and only as its own body and count say: a step of another request
\* leaves it as it is, every retry adds one attempt and one to the
\* request's own counter, and the bytes sent are the request's own or none.
C22_RetryStatePerInvocation ==
    [][\A p \in callers :
          /\ (pc'[p] = pc[p] /\ attempts'[p] = attempts[p]) => RetryState(p)' = RetryState(p)
          /\ attempts'[p] >= 1 =>
                 /\ attempts'[p] = retries'[p] + 1
                 /\ attempts'[p] <= retryMax + 1
                 /\ sentFirst'[p] = callBody'[p].bytes
                 /\ sentLast'[p] \in {callBody'[p].bytes, <<>>}]_vars

C22_Witness ==
    /\ pc[1] = "backoff" /\ attempts[1] = 1 /\ callBody[1].has
    /\ pc[2] = "classify" /\ attempts[2] = 2 /\ ~callBody[2].has

\* The phase that can follow each phase of a call.
PhaseOrder ==
    {<<"idle", "gate">>, <<"idle", "done">>, <<"gate", "send">>, <<"gate", "done">>,
     <<"send", "done">>, <<"send", "backoff">>, <<"send", "classify">>, <<"backoff", "classify">>,
     <<"backoff", "panic">>, <<"classify", "done">>, <<"done", "idle">>}

\* C28: a call goes through parse and resolve, the gate, the request with
\* its merged headers, the send, the classification and the decode in this
\* order, and a failed phase ends it: nothing is sent before the resource
\* resolved and the gate (when configured) admitted the call, no status is
\* looked at before the send returned a response, and the target is
\* written only when that status was taken for a success.
C28_PhasesInOrder ==
    [][\A p \in callers :
          /\ pc'[p] # pc[p] => <<pc[p], pc'[p]>> \in PhaseOrder
          /\ attempts'[p] > attempts[p] =>
                 /\ pc[p] \in {"send", "backoff"}
                 /\ reqUrl[p] = FullUrl(resource[p])
                 /\ cfg.RateLimiter => admits[p] = Quantity
                 /\ pc[p] = "send" => reqHeader'[p] \in RequestHeaders(p)
          /\ (pc'[p] = "done" /\ pc[p] # "done") =>
                 /\ ret'[p].err = "InvalidResource" => pc[p] = "idle"
                 /\ ret'[p].err = "limiter" => (pc[p] = "gate" /\ attempts[p] = 0)
                 /\ ret'[p].err \in {"NewRequestError", "unwrapped"} =>
                        (pc[p] = "send" /\ attempts'[p] = 0)
                 /\ ret'[p].err = "RequestError" =>
                        (pc[p] = "classify" /\ err[p] /\ finalBody'[p] = NoBody)
                 /\ ret'[p].err \in {"BadStatusCode", "CopyError", "DecodeError", "nil"} =>
                        (pc[p] = "classify" /\ ~err[p] /\ attempts[p] >= 1)
          /\ (pc[p] \notin {"idle", "done"} /\ target'[p] # target[p]) =>
                 /\ pc[p] = "classify" /\ ret'[p].err = "nil"
                 /\ GoDiv(resp[p].status, 10) = 20
                 /\ target'[p].val = Decode(finalBody'[p]).val]_vars

C28_Witness ==
    \E p \in callers :
        /\ cfg.RateLimiter /\ pc[p] = "done" /\ ret[p].err = "nil"
        /\ admits[p] = Quantity /\ attempts[p] = 1 /\ target[p].has /\ target[p].val # 0

\* C29: every return of a verb method has exactly one of its two results
\* non-nil: the response (or reader) exactly when the error is nil.
C29_OneResultNonNil ==
    \A p \in callers :
        pc[p] = "done" =>
            /\ ret[p] # NoRet
            /\ (ret[p].err = "nil") = (ret[p].resp # NoResp)

C29_Witness ==
    \E p \in callers :
        /\ pc[p] = "done" /\ verb[p] = "Stream"
        /\ resp[p] # NoResp /\ ret[p].err = "BadStatusCode" /\ ret[p].resp = NoResp

\* 2^a seconds.
TwoToTheSeconds(a) == Duration(Second.m, Second.e + a)

\* C26: the delay RoundTrip sleeps before the retry that follows attempt
\* number a is exactly 2^a seconds, whatever a is: each delay is double the
\* one before, without a cap.
C26_DelayIsPowerOfTwo ==
    \A p \in callers :
        pc[p] = "wake" =>
            /\ delay[p] = TwoToTheSeconds(retries[p])
            /\ retries[p] >= 1 => delay[p] = Duration(backoff(retries[p] - 1).m, backoff(retries[p] - 1).e + 1)

\* C25: attempts of one request follow one another: a further attempt is
\* sent only from the loop, after the previous attempt returned a response,
\* the backoff elapsed and that response's body was drained and closed.
\* No discarded response stays unclosed or is returned, and the response
\* RoundTrip returns is its last one with its body open.
C25_SequentialAttempts ==
    [][\A p \in callers :
          /\ (attempts[p] >= 1 /\ attempts'[p] = attempts[p] + 1) =>
                 /\ pc[p] = "backoff" /\ sleepLeft[p] = 0
                 /\ resp[p].n = attempts[p]
                 /\ DiscardBody(respBody[p]) = "closed"
          /\ unclosed'[p] = 0
          /\ (getRoundTripper /\ pc'[p] = "classify" /\ ~err'[p]) =>
                 /\ resp'[p].n = attempts'[p]
                 /\ respBody'[p] = "open"]_vars

C25_Witness ==
    \E p \in callers :
        /\ getRoundTripper /\ pc[p] = "classify" /\ attempts[p] = 3
        /\ ~err[p] /\ respBody[p] = "open" /\ unclosed[p] = 0

\* The place of the last WithCustomClient in the option list, 0 for none.
LastCustom ==
    LET at == {i \in DOMAIN cfg.Opts : cfg.Opts[i] = "WithCustomClient"}
    IN IF at = {} THEN 0 ELSE CHOOSE i \in at : \A j \in at : j <= i

\* C30: options are applied in order to the client built from Config, and
\* WithCustomClient supersedes what came before it: sends of the built
\* client go through the supplied client only, so a call makes one attempt
\* whatever RetryEnabled says, and credentials set by an earlier
\* WithCredentials are gone, while a later WithCredentials stays.
C30_CustomClientSupersedes ==
    \A p \in callers :
        /\ LastCustom = 0 => Http.retry = cfg.RetryEnabled
        /\ Http.oauth = (\E j \in DOMAIN cfg.Opts : j > LastCustom /\ cfg.Opts[j] = "WithCredentials")
        /\ LastCustom > 0 =>
               /\ Http.custom /\ ~Http.retry
               /\ attempts[p] <= 1 /\ pc[p] \notin {"backoff", "panic"}
               /\ pc[p] = "classify" => attempts[p] = 1

C30_Witness ==
    \E p \in callers :
        /\ cfg.RetryEnabled /\ cfg.Opts = <<"WithCredentials", "WithCustomClient">>
        /\ pc[p] = "done" /\ attempts[p] = 1 /\ resp[p].status = 500

\* The error kinds of the package, each naming a phase.
PhaseErrors ==
    {"InvalidResource", "NewRequestError", "RequestError", "BadStatusCode", "CopyError",
     "DecodeError"}

\* The copy of a refused response's body ran into a read error.
ErrorBodyReadFailed(p) ==
    /\ ~err[p] /\ GoDiv(resp[p].status, 10) # 20
    /\ finalBody[p].fails
    /\ cfg.Rev = 2 => ReadLimit > finalBody[p].len

\* C23: every error a verb method returns is of a kind that names the
\* failing phase, and a failure in the pipeline is reported, not dropped: a
\* failed copy of the error body comes back as a copy error.
C23_ErrorsWrappedByPhase ==
    \A p \in callers :
        (pc[p] = "done" /\ ret[p].err # "nil") =>
            /\ ret[p].err \in PhaseErrors
            /\ ErrorBodyReadFailed(p) => ret[p].err = "CopyError"

\* C21: the reader Stream returns yields the bytes of the response body in
\* order, all of them, and then the end of the stream, by which time the
\* copy task has closed the pipe's write side and the response body,
\* whether its copy completed or failed.
C21_ReaderYieldsBody ==
    \A p \in callers :
        /\ pipe[p].w = "closed" => respBody[p] = "closed"
        /\ pipe[p].eof =>
               /\ pipe[p].got = Chunks(finalBody[p])
               /\ pipe[p].w = "closed"

\* C31: a write of the copy task into the pipe returns only when the
\* consumer reads: while a chunk is held in a write, a step in which the
\* consumer reads nothing leaves the write side and the response body open,
\* cancellation included, and a copy that ended without error has had every
\* chunk of the body read by the consumer.  When the copy fails the write
\* side is closed without an error: the consumer's read at the end gives a
\* plain end-of-stream, as after a complete body.
C31_CopyNeedsReader ==
    [][\A p \in callers :
          /\ (pipe[p].held # <<>> /\ pipe'[p].got = pipe[p].got) =>
                 /\ pipe'[p].w = "open" /\ pipe'[p].held = pipe[p].held
                 /\ respBody'[p] = "open"
          /\ (pipe'[p].w = "closed" /\ ~pipe'[p].failed) => pipe'[p].got = Chunks(finalBody'[p])
          /\ pipe'[p].w = "closed" => respBody'[p] = "closed"
          /\ pipe'[p].eof => pipe'[p].seen = "EOF"]_vars

C31_Witness ==
    \E p \in callers :
        /\ pipe[p].eof /\ pipe[p].failed /\ pipe[p].seen = "EOF"
        /\ pipe[p].got = <<2>> /\ finalBody[p].head = <<2, 1>>

\* C32: every request a verb method sends goes to the scheme and host of the
\* client's base address, whatever resource the method accepted; so the
\* default headers reach that host only and the key charged at the gate names
\* the host contacted.
C32_RequestsStayOnBaseHost ==
    \A p \in callers :
        attempts[p] >= 1 =>
            /\ reqUrl[p].scheme = BaseUrl.scheme
            /\ reqUrl[p].host = BaseUrl.host
            /\ cfg.RateLimiter => RateLimitKey(p).host = reqUrl[p].host
====
